---- MODULE Spec2Model ----
(***************************************************************************)
(* scytale2parodus: an HTTP/JSON gateway that wraps a device command in a  *)
(* WRP envelope, posts it to Scytale and renders the reply as JSON.         *)
(*                                                                         *)
(* The model follows src/main.go (route, rate limiting middleware, metrics *)
(* middleware) and src/scytale2parodus.go (PostCallHandler,                *)
(* HealthCheckHandler).  Every request is a process that walks through the *)
(* middleware chain of the send route; the token bucket, the clock and the *)
(* configuration are shared.                                               *)
(***************************************************************************)
EXTENDS Integers, Sequences, FiniteSets, TLC

(***************************************************************************)
(* Bounds of the model.                                                    *)
(***************************************************************************)
\* number of concurrent requests on the send endpoint
NReq == 2
\* largest configured burst of the token bucket
MaxBurst == 1
\* last instant of the clock read by time.Now()
MaxTime == 2

Reqs == 1..NReq

(***************************************************************************)
(* JSON documents, as the bytes of a body or of a payload denote them.     *)
(* A number is an integer hi * 2^30 + lo with 0 <= lo < 2^30, so that the  *)
(* integers around 2^53 (the width of a float64 mantissa) can be written.  *)
(***************************************************************************)
Lo == 2^30

RawInvalid == [t |-> "invalid"]
RawNull == [t |-> "null"]
RawBool(b) == [t |-> "bool", b |-> b]
RawStr(s) == [t |-> "string", s |-> s]
RawNum(hi, lo) == [t |-> "number", hi |-> hi, lo |-> lo]
RawArr == [t |-> "array"]
RawObj(m) == [t |-> "object", members |-> m]

(***************************************************************************)
(* Go values that encoding/json stores in an `any`.                        *)
(***************************************************************************)
GoNil == [g |-> "nil"]
GoBool(b) == [g |-> "bool", b |-> b]
GoString(s) == [g |-> "string", s |-> s]
GoFloat64(hi, lo) == [g |-> "float64", hi |-> hi, lo |-> lo]
GoSlice == [g |-> "[]interface {}"]
GoMap(m) == [g |-> "map[string]interface {}", m |-> m]

\* RpcRequest is map[string]any; its zero value is the nil map.
NilRpcRequest == [isNil |-> TRUE, m |-> <<>>]
RpcRequest(m) == [isNil |-> FALSE, m |-> m]

(***************************************************************************)
(* strconv.ParseFloat(s, 64) on an integer literal below 2^54: exact below *)
(* 2^53; from 2^53 on only even integers are representable and an odd one  *)
(* is a tie, rounded to the neighbour whose mantissa is even.              *)
(***************************************************************************)
ParseFloat64(hi, lo) ==
    IF hi < 2^23 \/ lo % 2 = 0 THEN GoFloat64(hi, lo)
    ELSE IF lo % 4 = 1 THEN GoFloat64(hi, lo - 1)
    ELSE IF lo + 1 = Lo THEN GoFloat64(hi + 1, 0)
    ELSE GoFloat64(hi, lo + 1)

\* json.Unmarshal of one value into an `any`
RECURSIVE DecodeAny(_)
DecodeAny(v) ==
    CASE v.t = "null" -> GoNil
      [] v.t = "bool" -> GoBool(v.b)
      [] v.t = "string" -> GoString(v.s)
      [] v.t = "number" -> ParseFloat64(v.hi, v.lo)
      [] v.t = "array" -> GoSlice
      [] v.t = "object" ->
            GoMap([k \in DOMAIN v.members |-> DecodeAny(v.members[k])])

\* json.Unmarshal(body, &deviceRequest) with deviceRequest an RpcRequest:
\* a syntax error and a non-object document are errors, the document null
\* is accepted and leaves the nil map, an object fills the map.
Unmarshal(body) ==
    CASE body.t = "invalid" -> [err |-> TRUE, value |-> NilRpcRequest]
      [] body.t = "null" -> [err |-> FALSE, value |-> NilRpcRequest]
      [] body.t = "object" ->
            [err |-> FALSE,
             value |-> RpcRequest([k \in DOMAIN body.members |->
                                       DecodeAny(body.members[k])])]
      [] OTHER -> [err |-> TRUE, value |-> NilRpcRequest]

\* json.Marshal of one value held in an `any`; a float64 holding an integer
\* below 1e21 is written as that integer's decimal digits
RECURSIVE EncodeAny(_)
EncodeAny(x) ==
    CASE x.g = "nil" -> RawNull
      [] x.g = "bool" -> RawBool(x.b)
      [] x.g = "string" -> RawStr(x.s)
      [] x.g = "float64" -> RawNum(x.hi, x.lo)
      [] x.g = "[]interface {}" -> RawArr
      [] x.g = "map[string]interface {}" ->
            RawObj([k \in DOMAIN x.m |-> EncodeAny(x.m[k])])

\* json.Marshal(deviceRequest): the nil map is the document null
Marshal(dr) ==
    IF dr.isNil THEN RawNull
    ELSE RawObj([k \in DOMAIN dr.m |-> EncodeAny(dr.m[k])])

(***************************************************************************)
(* deviceIdRegex = ^[0-9A-Fa-f]{12}$ ; a deviceID is a sequence of         *)
(* characters.                                                             *)
(***************************************************************************)
HexDigits ==
    {"0", "1", "2", "3", "4", "5", "6", "7", "8", "9",
     "A", "B", "C", "D", "E", "F", "a", "b", "c", "d", "e", "f"}

\* the expression without its anchors: ^ and $ left out
MatchStringUnanchored(deviceID) ==
    \E i \in 1..Len(deviceID) :
        /\ i + 11 <= Len(deviceID)
        /\ \A j \in i..(i + 11) : deviceID[j] \in HexDigits

MatchString(deviceID) ==
    /\ Len(deviceID) = 12
    /\ \A i \in 1..Len(deviceID) : deviceID[i] \in HexDigits

\* uuid.New().String(): the k-th value generated while serving request r;
\* no two calls return the same string
UuidTable ==
    << "7674ff29-e62c-45b8-a6c0-d70affdffc01", "7674ff29-e62c-45b8-a6c0-d70affdffc02",
       "7674ff29-e62c-45b8-a6c0-d70affdffc03", "7674ff29-e62c-45b8-a6c0-d70affdffc04",
       "7674ff29-e62c-45b8-a6c0-d70affdffc05", "7674ff29-e62c-45b8-a6c0-d70affdffc06",
       "7674ff29-e62c-45b8-a6c0-d70affdffc07", "7674ff29-e62c-45b8-a6c0-d70affdffc08" >>

UuidNew(r, k) == UuidTable[2 * (r - 1) + k]

\* fmt.Sprintf("mac:%s/%s", deviceID, service)
Destination(deviceID, service) ==
    <<"m", "a", "c", ":">> \o deviceID \o <<"/">> \o service

\* m[k] = v on a Go map
MapSet(m, k, v) == [x \in DOMAIN m \cup {k} |-> IF x = k THEN v ELSE m[x]]

\* value, ok := m[k].(string)
IsString(dr, k) == ~dr.isNil /\ k \in DOMAIN dr.m /\ dr.m[k].g = "string"

\* SetId that looks for the key only: an empty string id is kept
SetIdIfAbsent(deviceRequest, requestID) ==
    IF IsString(deviceRequest, "jsonrpc") /\ "id" \notin DOMAIN deviceRequest.m
    THEN RpcRequest(MapSet(deviceRequest.m, "id", GoString(requestID)))
    ELSE deviceRequest

\* If this a json-rpc message, set the 'id' if not passed in the body
SetId(deviceRequest, requestID) ==
    IF IsString(deviceRequest, "jsonrpc")
    THEN IF ~IsString(deviceRequest, "id") \/ deviceRequest.m["id"].s = ""
         THEN RpcRequest(MapSet(deviceRequest.m, "id", GoString(requestID)))
         ELSE deviceRequest
    ELSE deviceRequest

(***************************************************************************)
(* What a client is sent.  http.Error sets a text content type, writes the *)
(* header with the code and the message; the status code capturing         *)
(* responseWriter of main.go records the code in statusCode.               *)
(***************************************************************************)
NoBody == [k |-> "none"]
TextBody(msg) == [k |-> "text", text |-> msg]
BytesBody(b) == [k |-> "bytes", bytes |-> b]
NoResponse == [code |-> 0, contentType |-> "", body |-> NoBody]

HttpError(q, msg, code) ==
    [q EXCEPT !.response = [code |-> code,
                            contentType |-> "text/plain; charset=utf-8",
                            body |-> TextBody(msg)],
              !.rwStatus = code]

\* w.Header().Set("Content-Type", "application/json"); w.Write(payload):
\* responseWriter.Write calls WriteHeader(200) only when statusCode is 0,
\* and the server sends 200 with the first byte written
WritePayload(q, payload) ==
    [q EXCEPT !.response = [code |-> 200,
                            contentType |-> "application/json",
                            body |-> BytesBody(payload)],
              !.rwStatus = IF @ = 0 THEN 200 ELSE @]

NoEnvelope == [Type |-> "none"]

(***************************************************************************)
(* State.                                                                  *)
(*   scytaleUrl  DeviceServer.scytaleUrl, as url.Parse sees it             *)
(*   backendUp   whether the address the gateway dials accepts connections *)
(*   burst       the burst the limiter was built with                      *)
(*   tokens      tokens in the limiter's bucket                            *)
(*   now         the clock                                                 *)
(*   reqs        one record per request on the send route                  *)
(*   health      what the /health probe answered                           *)
(***************************************************************************)
VARIABLES scytaleUrl, backendUp, burst, tokens, now, reqs, health

vars == <<scytaleUrl, backendUp, burst, tokens, now, reqs, health>>

\* a URL with host and port, one without a port, one url.Parse rejects
UrlHostPort == [parseErr |-> FALSE, host |-> "scytale", hasPort |-> TRUE, port |-> "6300"]
UrlNoPort == [parseErr |-> FALSE, host |-> "scytale", hasPort |-> FALSE, port |-> ""]
UrlUnparsable == [parseErr |-> TRUE, host |-> "", hasPort |-> FALSE, port |-> ""]
Urls == {UrlHostPort, UrlNoPort, UrlUnparsable}

NoReply == [StatusCode |-> 0, decodeErr |-> FALSE, Payload |-> <<>>]
NoObservation == [n |-> 0, duration |-> 0, status |-> 0, inc |-> 0]
Unread == [t |-> "unread"]

IdleRequest ==
    [pc |-> "new", deviceID |-> <<>>, service |-> <<>>, ctxDone |-> FALSE,
     waitErr |-> "", start |-> 0, waitTo |-> 0, rwStatus |-> 0,
     response |-> NoResponse, invoked |-> 0, body |-> Unread,
     requestID |-> "", uuidCalls |-> 0, destination |-> <<>>,
     wrpRequest |-> NoEnvelope, attempts |-> 0, doErr |-> "",
     reply |-> NoReply, obs |-> NoObservation]

\* rate.NewLimiter(limit, burst): the bucket starts full
Init ==
    /\ scytaleUrl \in Urls
    /\ backendUp \in BOOLEAN
    /\ burst \in 0..MaxBurst
    /\ tokens = burst
    /\ now = 0
    /\ reqs = [r \in Reqs |-> IdleRequest]
    /\ health = NoResponse

(***************************************************************************)
(* metricsMiddleware, entry: start := time.Now(), the wrapping             *)
(* responseWriter starts with statusCode 200, and next.ServeHTTP enters    *)
(* rateLimitMiddleware, which calls limiter.Wait(r.Context()).             *)
(***************************************************************************)
MetricsStart(r, deviceID, service) ==
    /\ reqs[r].pc = "new"
    /\ reqs' = [reqs EXCEPT ![r] = [@ EXCEPT !.pc = "wait",
                                             !.deviceID = deviceID,
                                             !.service = service,
                                             !.start = now,
                                             !.rwStatus = 200]]
    /\ UNCHANGED <<scytaleUrl, backendUp, burst, tokens, now, health>>

\* the request's context is cancelled: the client went away
ClientCancel(r) ==
    /\ reqs[r].pc \in {"wait", "waitErr", "handler", "do"}
    /\ ~reqs[r].ctxDone
    /\ reqs' = [reqs EXCEPT ![r].ctxDone = TRUE]
    /\ UNCHANGED <<scytaleUrl, backendUp, burst, tokens, now, health>>

\* limiter.Wait returns nil: a token is taken and next.ServeHTTP is called
WaitGranted(r) ==
    /\ reqs[r].pc = "wait"
    /\ burst >= 1
    /\ tokens >= 1
    /\ tokens' = tokens - 1
    /\ reqs' = [reqs EXCEPT ![r] = [@ EXCEPT !.pc = "handler",
                                             !.waitErr = "nil",
                                             !.waitTo = now]]
    /\ UNCHANGED <<scytaleUrl, backendUp, burst, now, health>>

\* limiter.Wait returns ctx.Err(): the context was done before a token came
WaitCancelled(r) ==
    /\ reqs[r].pc = "wait"
    /\ reqs[r].ctxDone
    /\ reqs' = [reqs EXCEPT ![r] = [@ EXCEPT !.pc = "waitErr",
                                             !.waitErr = "ctx",
                                             !.waitTo = now]]
    /\ UNCHANGED <<scytaleUrl, backendUp, burst, tokens, now, health>>

\* limiter.Wait returns "Wait(n=1) exceeds limiter's burst": an error of the
\* limiter that has nothing to do with the context
WaitExceedsBurst(r) ==
    /\ reqs[r].pc = "wait"
    /\ burst < 1
    /\ reqs' = [reqs EXCEPT ![r] = [@ EXCEPT !.pc = "waitErr",
                                             !.waitErr = "burst",
                                             !.waitTo = now]]
    /\ UNCHANGED <<scytaleUrl, backendUp, burst, tokens, now, health>>

\* RateLimitReject without the look at the context: 429 on every error
RateLimitRejectAlways(q) ==
    [HttpError(q, "Too Many Requests", 429) EXCEPT !.pc = "after"]

\* rateLimitMiddleware after Wait returned an error: return without a word
\* when r.Context().Err() != nil, else 429
RateLimitReject(q) ==
    IF q.ctxDone THEN [q EXCEPT !.pc = "after"]
    ELSE [HttpError(q, "Too Many Requests", 429) EXCEPT !.pc = "after"]

RateLimitError(r) ==
    /\ reqs[r].pc = "waitErr"
    /\ reqs' = [reqs EXCEPT ![r] = RateLimitReject(reqs[r])]
    /\ UNCHANGED <<scytaleUrl, backendUp, burst, tokens, now, health>>

\* the bucket gains a token as time passes, up to the burst
Refill ==
    /\ tokens < burst
    /\ tokens' = tokens + 1
    /\ UNCHANGED <<scytaleUrl, backendUp, burst, now, reqs, health>>

Tick ==
    /\ now < MaxTime
    /\ now' = now + 1
    /\ UNCHANGED <<scytaleUrl, backendUp, burst, tokens, reqs, health>>

(***************************************************************************)
(* PostCallHandler up to u.client.Do(postReq): q is the request's record,  *)
(* body what io.ReadAll returned (readErr: it failed), encodeErr whether   *)
(* the WRP encoder refused the message.  The result is the record after    *)
(* the handler either answered (pc "after") or called Do (pc "do").        *)
(***************************************************************************)
PostCall(q, r, body, readErr, encodeErr) ==
    LET q0 == [q EXCEPT !.invoked = @ + 1] IN
    IF ~MatchString(q0.deviceID)
    THEN [HttpError(q0, "Invalid device ID: must be a 12-character hexadecimal MAC address", 400)
            EXCEPT !.pc = "after"]
    ELSE IF readErr
    THEN [HttpError(q0, "Failed to read request body", 400) EXCEPT !.pc = "after"]
    ELSE
    LET q1 == [q0 EXCEPT !.body = body]
        u == Unmarshal(body)
    IN
    IF u.err
    THEN [HttpError(q1, "Failed to parse JSON", 400) EXCEPT !.pc = "after"]
    ELSE
    LET requestID == UuidNew(r, q1.uuidCalls + 1)
        deviceRequest == SetId(u.value, requestID)
        destination == Destination(q1.deviceID, q1.service)
        wrpPayload == Marshal(deviceRequest)
        wrpRequest == [Type |-> "SimpleRequestResponseMessageType",
                       Source |-> "scytale2parodus",
                       Destination |-> destination,
                       ContentType |-> "application/json",
                       TransactionUUID |-> requestID,
                       Payload |-> wrpPayload]
        q2 == [q1 EXCEPT !.requestID = requestID,
                         !.uuidCalls = @ + 1,
                         !.destination = destination,
                         !.wrpRequest = wrpRequest]
    IN
    IF encodeErr
    THEN [HttpError(q2, "Failed to encode WRP Msgpack", 500) EXCEPT !.pc = "after"]
    ELSE IF scytaleUrl.parseErr
    THEN [HttpError(q2, "Failed to post to Scytale", 503) EXCEPT !.pc = "after"]
    ELSE [q2 EXCEPT !.pc = "do", !.attempts = @ + 1]

PostCallHandler(r, body, readErr, encodeErr) ==
    /\ reqs[r].pc = "handler"
    /\ reqs' = [reqs EXCEPT ![r] = PostCall(reqs[r], r, body, readErr, encodeErr)]
    /\ UNCHANGED <<scytaleUrl, backendUp, burst, tokens, now, health>>

\* http.Error(w, fmt.Sprintf("Scytale returned invalid status: %s", resp.Status), ...)
InvalidStatus(status) ==
    CASE status = 101 -> "Scytale returned invalid status: 101 Switching Protocols"
      [] status = 400 -> "Scytale returned invalid status: 400 Bad Request"
      [] status = 500 -> "Scytale returned invalid status: 500 Internal Server Error"
      [] OTHER -> "Scytale returned invalid status: "

\* Translate with the upper bound of the status check off by one
TranslateAbove400(q, resp) ==
    LET q0 == [q EXCEPT !.reply = resp] IN
    IF resp.StatusCode < 200 \/ resp.StatusCode > 400
    THEN HttpError(q0, InvalidStatus(resp.StatusCode), resp.StatusCode)
    ELSE IF resp.decodeErr
    THEN HttpError(q0, "Failed to decode Scytale response", 400)
    ELSE IF Len(resp.Payload) = 0
    THEN HttpError(q0, "Empty response from Scytale", 502)
    ELSE WritePayload(q0, resp.Payload)

(***************************************************************************)
(* PostCallHandler after Do returned a response: the status check, the     *)
(* decoding of the reply and the rendering of its payload.                 *)
(***************************************************************************)
Translate(q, resp) ==
    LET q0 == [q EXCEPT !.reply = resp] IN
    IF resp.StatusCode < 200 \/ resp.StatusCode >= 400
    THEN HttpError(q0, InvalidStatus(resp.StatusCode), resp.StatusCode)
    ELSE IF resp.decodeErr
    THEN HttpError(q0, "Failed to decode Scytale response", 400)
    ELSE IF Len(resp.Payload) = 0
    THEN HttpError(q0, "Empty response from Scytale", 502)
    ELSE WritePayload(q0, resp.Payload)

\* u.client.Do returns a response: the backend accepted the connection
DoReturns(r, resp) ==
    /\ reqs[r].pc = "do"
    /\ backendUp
    /\ reqs' = [reqs EXCEPT ![r] = [Translate(reqs[r], resp) EXCEPT !.pc = "after"]]
    /\ UNCHANGED <<scytaleUrl, backendUp, burst, tokens, now, health>>

\* PostFailed that posts again after an error
PostFailedRetry(q, why) ==
    [q EXCEPT !.doErr = why, !.attempts = @ + 1, !.pc = "do"]

\* if err != nil after Do: 503, and the handler returns
PostFailed(q, why) ==
    [HttpError([q EXCEPT !.doErr = why], "Failed to post to Scytale", 503)
        EXCEPT !.pc = "after"]

\* u.client.Do of a client built without Timeout: only a refused connection
\* makes it return an error
DoFailsNoTimeout(r, why) ==
    /\ reqs[r].pc = "do"
    /\ why = "refused"
    /\ ~backendUp
    /\ reqs' = [reqs EXCEPT ![r] = PostFailed(reqs[r], why)]
    /\ UNCHANGED <<scytaleUrl, backendUp, burst, tokens, now, health>>

\* u.client.Do returns an error: the connection is refused by a backend that
\* is down, or a backend that is up does not answer within Client.Timeout
DoFails(r, why) ==
    /\ reqs[r].pc = "do"
    /\ (why = "refused") = ~backendUp
    /\ reqs' = [reqs EXCEPT ![r] = PostFailed(reqs[r], why)]
    /\ UNCHANGED <<scytaleUrl, backendUp, burst, tokens, now, health>>

(***************************************************************************)
(* metricsMiddleware after next.ServeHTTP returned: with rand.Float64() <  *)
(* 0.1 (sampled) one duration is observed and one counter incremented,     *)
(* labelled with the status code the responseWriter holds.                 *)
(***************************************************************************)
\* Observe with the duration taken from the moment limiter.Wait returned
ObserveSinceAdmission(q, sampled) ==
    IF sampled
    THEN [q EXCEPT !.obs = [n |-> 1, duration |-> now - q.waitTo,
                            status |-> q.rwStatus, inc |-> 1],
                   !.pc = "done"]
    ELSE [q EXCEPT !.pc = "done"]

Observe(q, sampled) ==
    IF sampled
    THEN [q EXCEPT !.obs = [n |-> 1, duration |-> now - q.start,
                            status |-> q.rwStatus, inc |-> 1],
                   !.pc = "done"]
    ELSE [q EXCEPT !.pc = "done"]

MetricsFinish(r, sampled) ==
    /\ reqs[r].pc = "after"
    /\ reqs' = [reqs EXCEPT ![r] = Observe(reqs[r], sampled)]
    /\ UNCHANGED <<scytaleUrl, backendUp, burst, tokens, now, health>>

(***************************************************************************)
(* HealthCheckHandler: url.Parse, net.SplitHostPort (an address without a  *)
(* port is an error), net.DialTimeout.                                     *)
(***************************************************************************)
SplitHostPortErr(u) == ~u.hasPort

HealthCheck ==
    IF scytaleUrl.parseErr
    THEN [code |-> 500, contentType |-> "text/plain; charset=utf-8",
          body |-> TextBody("Health check failed: invalid Scytale URL")]
    ELSE IF SplitHostPortErr(scytaleUrl)
    THEN [code |-> 500, contentType |-> "text/plain; charset=utf-8",
          body |-> TextBody("Health check failed: invalid Scytale host/port")]
    ELSE IF ~backendUp
    THEN [code |-> 503, contentType |-> "text/plain; charset=utf-8",
          body |-> TextBody("Scytale unreachable")]
    ELSE [code |-> 200, contentType |-> "application/json",
          body |-> TextBody("{\"status\":\"healthy\"}")]

HealthCheckHandler ==
    /\ health = NoResponse
    /\ health' = HealthCheck
    /\ UNCHANGED <<scytaleUrl, backendUp, burst, tokens, now, reqs>>

(***************************************************************************)
(* Inputs.  Bodies are shorter than MaxBodySize, so that io.LimitReader    *)
(* hands the handler the whole body.                                       *)
(***************************************************************************)
Service == <<"T", "a", "s", "k", "e", "r">>

Mac == <<"0", "0", "1", "1", "2", "2", "3", "3", "4", "4", "5", "5">>
MacMixed == <<"A", "b", "C", "d", "E", "f", "0", "1", "2", "3", "4", "5">>
\* eleven and thirteen characters, a letter past f, colons
MacShort == SubSeq(Mac, 1, 11)
MacLong == Mac \o <<"6">>
MacNotHex == <<"0", "0", "1", "1", "2", "2", "3", "3", "4", "4", "5", "G">>
MacColons == <<"0", "0", ":", "1", "1", ":", "2", "2", ":", "3", "3", ":">>

DeviceIDs == {Mac, MacMixed, MacShort, MacLong, MacNotHex, MacColons, <<>>}
FewDeviceIDs == {Mac, MacLong}

\* 2^53 + 1 = 8388608 * 2^30 + 1, the least integer float64 cannot hold
Big == RawNum(2^23, 1)

Keys == {"jsonrpc", "id", "params"}

ValuesOf(k) ==
    CASE k = "jsonrpc" -> {RawStr("2.0"), RawNum(0, 2), RawNull}
      [] k = "id" -> {RawStr(""), RawStr("myid"), RawNum(0, 7), Big, RawNull,
                      RawObj(<<>>), RawBool(TRUE), RawArr}
      [] k = "params" -> {RawStr("x"), Big, RawObj([path |-> RawStr("x")])}

\* the objects over Keys: each key absent or with one of its values
Absent == [t |-> "absent"]
Members(j, i, p) ==
    LET all == [jsonrpc |-> j, id |-> i, params |-> p]
    IN [k \in {x \in Keys : all[x] # Absent} |-> all[k]]

Objects ==
    {Members(j, i, p) : j \in ValuesOf("jsonrpc") \cup {Absent},
                        i \in ValuesOf("id") \cup {Absent},
                        p \in ValuesOf("params") \cup {Absent}}

Bodies ==
    {RawInvalid, RawNull, RawBool(TRUE), RawStr("x"), RawNum(0, 7), RawArr}
        \cup {RawObj(m) : m \in Objects}

FewBodies == {RawObj([jsonrpc |-> RawStr("2.0"), params |-> RawStr("x")])}

Payloads == {<<>>, <<123, 125>>}
Statuses == {101, 199, 200, 399, 400, 500}

RepliesOver(S) ==
    {[StatusCode |-> st, decodeErr |-> FALSE, Payload |-> p] : st \in S, p \in Payloads}
        \cup {[StatusCode |-> st, decodeErr |-> TRUE, Payload |-> <<>>] : st \in S}

Replies == RepliesOver(Statuses)
OneReply == {[StatusCode |-> 200, decodeErr |-> FALSE, Payload |-> <<123, 125>>]}
FewReplies ==
    {[StatusCode |-> 200, decodeErr |-> FALSE, Payload |-> <<123, 125>>],
     [StatusCode |-> 500, decodeErr |-> FALSE, Payload |-> <<>>]}

(***************************************************************************)
(* Admission of the requests in R, with deviceIDs drawn from D:            *)
(* metricsMiddleware's entry and rateLimitMiddleware.                      *)
(***************************************************************************)
Admit(R, D) ==
    \/ \E r \in R, d \in D : MetricsStart(r, d, Service)
    \/ \E r \in R : ClientCancel(r)
    \/ \E r \in R : WaitGranted(r)
    \/ \E r \in R : WaitCancelled(r)
    \/ \E r \in R : WaitExceedsBurst(r)
    \/ \E r \in R : RateLimitError(r)

(***************************************************************************)
(* PostCallHandler and metricsMiddleware's exit for the requests in R,     *)
(* with bodies B, read errors RE, encoder errors EE, backend replies Rep.  *)
(***************************************************************************)
Handle(R, B, RE, EE, Rep) ==
    \/ \E r \in R, b \in B, re \in RE, ee \in EE : PostCallHandler(r, b, re, ee)
    \/ \E r \in R, resp \in Rep : DoReturns(r, resp)
    \/ \E r \in R, why \in {"refused", "timeout"} : DoFails(r, why)
    \/ \E r \in R, sampled \in BOOLEAN : MetricsFinish(r, sampled)

(***************************************************************************)
(* Spec: concurrent requests share the token bucket.                       *)
(***************************************************************************)
Next ==
    \/ Admit(Reqs, FewDeviceIDs)
    \/ Handle(Reqs, FewBodies, {FALSE}, {FALSE}, FewReplies)
    \/ Refill

Spec == Init /\ [][Next]_vars

(***************************************************************************)
(* MetricsSpec: one request under a clock; earlier traffic may have left   *)
(* the bucket anywhere between empty and full.                             *)
(***************************************************************************)
MetricsInit ==
    /\ scytaleUrl \in Urls
    /\ backendUp \in BOOLEAN
    /\ burst \in 0..MaxBurst
    /\ tokens \in 0..burst
    /\ now = 0
    /\ reqs = [r \in Reqs |-> IdleRequest]
    /\ health = NoResponse

MetricsNext ==
    \/ Admit({1}, FewDeviceIDs)
    \/ Handle({1}, FewBodies, {FALSE}, {FALSE}, FewReplies)
    \/ Refill
    \/ Tick

MetricsSpec == MetricsInit /\ [][MetricsNext]_vars

(***************************************************************************)
(* TranslatorSpec: one admitted request with every input, and the /health  *)
(* probe.                                                                  *)
(***************************************************************************)
TranslatorNext ==
    \/ Admit({1}, DeviceIDs)
    \/ Handle({1}, Bodies, BOOLEAN, BOOLEAN, Replies)
    \/ HealthCheckHandler

TranslatorSpec == Init /\ [][TranslatorNext]_vars

(***************************************************************************)
(* LiveSpec: concurrent requests while the program keeps running.          *)
(* Every goroutine of a request takes its next step; limiter.Wait returns  *)
(* once its context is done, once a token of the refilling bucket is       *)
(* there, or at once when the burst cannot hold one token; client.Do       *)
(* returns an error once the connection is refused or Client.Timeout has   *)
(* elapsed.  Nothing makes a client send or abandon a request, and nothing *)
(* makes the backend answer.                                               *)
(***************************************************************************)
Scheduling(r) ==
    /\ WF_vars(WaitCancelled(r))
    /\ WF_vars(WaitGranted(r))
    /\ WF_vars(WaitExceedsBurst(r))
    /\ WF_vars(RateLimitError(r))
    /\ WF_vars(\E body \in FewBodies : PostCallHandler(r, body, FALSE, FALSE))
    /\ WF_vars(\E why \in {"refused", "timeout"} : DoFails(r, why))
    /\ WF_vars(MetricsFinish(r, FALSE))

LiveInit == Init /\ scytaleUrl = UrlHostPort

\* whether metricsMiddleware samples a request does not change where the
\* request goes: here none is sampled
LiveNext ==
    \/ Admit(Reqs, {Mac})
    \/ \E r \in Reqs, body \in FewBodies : PostCallHandler(r, body, FALSE, FALSE)
    \/ \E r \in Reqs, resp \in OneReply : DoReturns(r, resp)
    \/ \E r \in Reqs, why \in {"refused", "timeout"} : DoFails(r, why)
    \/ \E r \in Reqs : MetricsFinish(r, FALSE)
    \/ Refill

LiveSpec ==
    /\ LiveInit
    /\ [][LiveNext]_vars
    /\ WF_vars(Refill)
    /\ \A r \in Reqs : Scheduling(r)

(***************************************************************************)
(* Vocabulary of the properties.                                           *)
(***************************************************************************)
\* the middleware chain is through with the request's handler
Answered(r) == reqs[r].pc \in {"after", "done"}
\* u.client.Do returned a response for the request
Returned(r) == reqs[r].reply.StatusCode # 0
\* the handler built the WRP message of the request
Built(r) == reqs[r].wrpRequest.Type # "none"
\* the request's body is a JSON object
ObjectBody(r) == reqs[r].body.t = "object"
Inbound(r) == reqs[r].body.members
Outbound(r) == reqs[r].wrpRequest.Payload.members
StringValued(m, k) == k \in DOMAIN m /\ m[k].t = "string"
\* exactly 12 hexadecimal characters
TwelveHex(d) ==
    /\ Len(d) = 12
    /\ \A i \in 1..12 :
          d[i] \in {"0", "1", "2", "3", "4", "5", "6", "7", "8", "9", "A", "B",
                    "C", "D", "E", "F", "a", "b", "c", "d", "e", "f"}

(***************************************************************************)
(* C1: once the backend call of an admitted, valid request returned, the   *)
(* client is sent the backend's own status when it is outside [200,400),   *)
(* 400 when the reply does not decode, 502 when its payload is empty, and  *)
(* otherwise 200 with content type JSON and the payload bytes as body.     *)
(***************************************************************************)
C1_Outcome ==
    \A r \in Reqs : Returned(r) =>
        LET q == reqs[r]
            st == q.reply.StatusCode
        IN /\ Answered(r)
           /\ IF st < 200 \/ st > 399 THEN q.response.code = st
              ELSE IF q.reply.decodeErr THEN q.response.code = 400
              ELSE IF q.reply.Payload = <<>> THEN q.response.code = 502
              ELSE /\ q.response.code = 200
                   /\ q.response.contentType = "application/json"
                   /\ q.response.body = BytesBody(q.reply.Payload)

\* a reply with status 200 and a payload is rendered as 200 with that payload
C1_Witness ==
    \E r \in Reqs :
        /\ Returned(r)
        /\ reqs[r].reply.StatusCode = 200
        /\ reqs[r].reply.Payload # <<>>
        /\ reqs[r].response.code = 200

(***************************************************************************)
(* C2: when the body is an object with a string jsonrpc and its id is      *)
(* absent or the empty string, the id of the outbound payload is the       *)
(* envelope's TransactionUUID: both are the one correlator generated for   *)
(* the request.                                                            *)
(***************************************************************************)
C2_IdIsTransactionUUID ==
    \A r \in Reqs :
        (/\ Built(r)
         /\ ObjectBody(r)
         /\ StringValued(Inbound(r), "jsonrpc")
         /\ ("id" \notin DOMAIN Inbound(r) \/ Inbound(r)["id"] = RawStr("")))
        => /\ reqs[r].wrpRequest.Payload.t = "object"
           /\ "id" \in DOMAIN Outbound(r)
           /\ Outbound(r)["id"] = RawStr(reqs[r].wrpRequest.TransactionUUID)
           /\ reqs[r].wrpRequest.TransactionUUID = reqs[r].requestID
           /\ reqs[r].uuidCalls = 1

C2_Witness ==
    \E r \in Reqs :
        /\ Built(r)
        /\ ObjectBody(r)
        /\ StringValued(Inbound(r), "jsonrpc")
        /\ "id" \notin DOMAIN Inbound(r)
        /\ reqs[r].attempts = 1
        /\ Outbound(r)["id"] = RawStr(reqs[r].wrpRequest.TransactionUUID)

(***************************************************************************)
(* C3: when the body has a string jsonrpc and an id that is present and is *)
(* a number, an object, an array or a boolean, the outbound payload        *)
(* carries that id as it was sent.                                         *)
(***************************************************************************)
C3_NonStringIdUntouched ==
    \A r \in Reqs :
        (/\ Built(r)
         /\ ObjectBody(r)
         /\ StringValued(Inbound(r), "jsonrpc")
         /\ "id" \in DOMAIN Inbound(r)
         /\ Inbound(r)["id"].t \in {"number", "object", "array", "bool"})
        => /\ "id" \in DOMAIN Outbound(r)
           /\ Outbound(r)["id"] = Inbound(r)["id"]

(***************************************************************************)
(* C4: the handler changes nothing of the inbound object but the key id:   *)
(* every other key has the same value in the outbound payload; without a   *)
(* string jsonrpc no id is injected; a non-empty string id stays as sent   *)
(* while the TransactionUUID is the generated correlator.                  *)
(***************************************************************************)
C4_OnlyIdChanges ==
    \A r \in Reqs : (Built(r) /\ ObjectBody(r)) =>
        LET in == Inbound(r)
            out == Outbound(r)
            uuid == reqs[r].wrpRequest.TransactionUUID
        IN /\ DOMAIN out \ {"id"} = DOMAIN in \ {"id"}
           /\ \A k \in DOMAIN in \ {"id"} : out[k] = in[k]
           /\ ~StringValued(in, "jsonrpc") =>
                 /\ ("id" \in DOMAIN out) = ("id" \in DOMAIN in)
                 /\ "id" \in DOMAIN out => out["id"] # RawStr(uuid)
           /\ (StringValued(in, "id") /\ in["id"] # RawStr("")) =>
                 /\ out["id"] = in["id"]
                 /\ uuid = reqs[r].requestID
                 /\ uuid = UuidNew(r, 1)
                 /\ in["id"] # RawStr(uuid)

(***************************************************************************)
(* C5 as stated: every request on the send route whose deviceID is not 12  *)
(* hexadecimal characters is answered 400, and neither a device address    *)
(* nor an envelope exists for it.                                          *)
(***************************************************************************)
C5_InvalidIdAlways400 ==
    \A r \in Reqs : (reqs[r].pc = "done" /\ ~TwelveHex(reqs[r].deviceID)) =>
        /\ reqs[r].response.code = 400
        /\ reqs[r].destination = <<>>
        /\ ~Built(r)
        /\ reqs[r].attempts = 0

(***************************************************************************)
(* C5 amended: a request whose deviceID is not 12 hexadecimal characters   *)
(* never gets a device address, an envelope or a backend call, and is      *)
(* answered 400 whenever the limiter admitted it; one the limiter did not  *)
(* admit is answered 429 or not at all.                                    *)
(***************************************************************************)
C5_InvalidIdRejected ==
    \A r \in Reqs : ~TwelveHex(reqs[r].deviceID) =>
        /\ reqs[r].destination = <<>>
        /\ ~Built(r)
        /\ reqs[r].attempts = 0
        /\ reqs[r].body = Unread
        /\ reqs[r].pc # "do"
        /\ Answered(r) =>
              IF reqs[r].waitErr = "nil" THEN reqs[r].response.code = 400
              ELSE \/ reqs[r].response = NoResponse
                   \/ /\ reqs[r].response.code = 429
                      /\ reqs[r].response.body = TextBody("Too Many Requests")

\* a thirteen character deviceID, admitted and answered 400
C5_Witness ==
    \E r \in Reqs :
        /\ reqs[r].deviceID = MacLong
        /\ reqs[r].invoked = 1
        /\ reqs[r].response.code = 400

(***************************************************************************)
(* C6: the handler answers 400 and builds no envelope for every body that  *)
(* is not a JSON object (invalid JSON, array, string, number, boolean,     *)
(* null) on a valid deviceID; only an object body reaches the envelope.    *)
(***************************************************************************)
C6_NonObjectRejected ==
    \A r \in Reqs :
        /\ (/\ reqs[r].invoked = 1
            /\ TwelveHex(reqs[r].deviceID)
            /\ reqs[r].body # Unread
            /\ ~ObjectBody(r))
           => /\ reqs[r].response.code = 400
              /\ ~Built(r)
              /\ reqs[r].attempts = 0
        /\ Built(r) => ObjectBody(r)

(***************************************************************************)
(* C7: a request makes at most one backend POST, and only with a valid     *)
(* deviceID, a body that was read and parsed and an envelope that was      *)
(* encoded; a failure of the POST is answered 503 without a second try.    *)
(***************************************************************************)
C7_SingleAttempt ==
    \A r \in Reqs :
        LET q == reqs[r] IN
        /\ q.attempts <= 1
        /\ q.attempts = 1 =>
              /\ TwelveHex(q.deviceID)
              /\ q.body # Unread
              /\ ~Unmarshal(q.body).err
              /\ Built(r)
              /\ q.response.body # TextBody("Failed to encode WRP Msgpack")
              /\ q.response.body # TextBody("Failed to parse JSON")
        /\ q.doErr # "" =>
              /\ q.attempts = 1
              /\ Answered(r)
              /\ q.response.code = 503
              /\ ~Returned(r)

\* the backend refused the connection: one attempt, 503
C7_Witness ==
    \E r \in Reqs :
        /\ reqs[r].doErr = "refused"
        /\ reqs[r].attempts = 1
        /\ reqs[r].response.code = 503
        /\ reqs[r].pc = "done"

(***************************************************************************)
(* C9: /health answers 500 when the URL does not parse into host and port, *)
(* else 503 when the TCP connection fails, else 200; and whenever the send *)
(* route answered 503 because the backend refused the connection, /health  *)
(* answers 503 for the same URL.                                           *)
(***************************************************************************)
C9_HealthFollowsSend ==
    health # NoResponse =>
        /\ health.code = IF scytaleUrl.parseErr \/ ~scytaleUrl.hasPort THEN 500
                         ELSE IF ~backendUp THEN 503
                         ELSE 200
        /\ health.code = 200 => health.body = TextBody("{\"status\":\"healthy\"}")
        /\ \A r \in Reqs :
              (/\ ObjectBody(r)
               /\ reqs[r].doErr = "refused"
               /\ reqs[r].response.code = 503)
                  => health.code = 503

(***************************************************************************)
(* C8: whatever the interleaving of the requests on the token bucket, the  *)
(* admission of a request ends in exactly one of three ways: a token is    *)
(* granted and the translator is invoked once; the context is cancelled    *)
(* before a token is granted, nothing is written and the translator and    *)
(* the backend are not reached; or the limiter reports an error while the  *)
(* context is not cancelled, the answer is 429 and the translator is not   *)
(* reached.                                                                *)
(***************************************************************************)
Granted(r) == reqs[r].waitErr = "nil" /\ reqs[r].invoked = 1

Abandoned(r) ==
    /\ reqs[r].waitErr \in {"ctx", "burst"}
    /\ reqs[r].ctxDone
    /\ reqs[r].response = NoResponse
    /\ reqs[r].invoked = 0
    /\ reqs[r].attempts = 0
    /\ ~Built(r)

Rejected(r) ==
    /\ reqs[r].waitErr = "burst"
    /\ ~reqs[r].ctxDone
    /\ reqs[r].response.code = 429
    /\ reqs[r].invoked = 0
    /\ reqs[r].attempts = 0
    /\ ~Built(r)

C8_AdmissionOutcome ==
    /\ tokens \in 0..burst
    /\ \A r \in Reqs :
        /\ reqs[r].invoked <= 1
        /\ reqs[r].invoked = 1 => reqs[r].waitErr = "nil"
        /\ reqs[r].waitErr = "ctx" => reqs[r].ctxDone
        /\ reqs[r].pc \in {"do", "after", "done"} =>
              /\ Granted(r) \/ Abandoned(r) \/ Rejected(r)
              /\ ~(Granted(r) /\ Abandoned(r))
              /\ ~(Granted(r) /\ Rejected(r))
              /\ ~(Abandoned(r) /\ Rejected(r))

\* two requests on a bucket of one token: one is granted the token, the
\* other waits, is cancelled and gets no answer
C8_Witness ==
    \E r1, r2 \in Reqs :
        /\ r1 # r2
        /\ reqs[r1].pc = "done" /\ Granted(r1)
        /\ reqs[r2].pc = "done" /\ Abandoned(r2) /\ reqs[r2].waitErr = "ctx"
        /\ tokens = 0

(***************************************************************************)
(* C10 as stated: the recorder starts timing only once a token is granted: *)
(* a request that is rejected with 429 or abandoned leaves no observation  *)
(* and no counter increment, and no observed duration includes time spent  *)
(* in the limiter.                                                         *)
(***************************************************************************)
C10_RecorderAfterAdmission ==
    \A r \in Reqs : reqs[r].obs.n = 1 =>
        /\ reqs[r].waitErr = "nil"
        /\ reqs[r].start >= reqs[r].waitTo

(***************************************************************************)
(* C10 amended: the stages run in the order metrics recorder, admission    *)
(* control, translator.  The recorder starts timing before limiter.Wait is *)
(* called, so every observed duration includes the admission wait, and a   *)
(* request that is rejected with 429 or abandoned is observed and counted  *)
(* like any other when it is sampled, under the status 429 or 200.         *)
(***************************************************************************)
C10_RecorderWrapsAdmission ==
    \A r \in Reqs :
        LET q == reqs[r] IN
        /\ q.waitErr # "" => q.start <= q.waitTo
        /\ q.invoked = 1 => q.waitErr = "nil"
        /\ q.obs.n = q.obs.inc
        /\ q.obs.n = 1 =>
              /\ q.pc = "done"
              /\ q.obs.status = q.rwStatus
              /\ q.obs.duration >= q.waitTo - q.start
              /\ q.obs.duration <= now - q.start
              /\ q.waitErr # "nil" =>
                    q.obs.status = IF q.response = NoResponse THEN 200 ELSE 429

\* an abandoned request that waited for a tick is observed under status 200
C10_Witness ==
    \E r \in Reqs :
        /\ reqs[r].waitErr = "ctx"
        /\ reqs[r].response = NoResponse
        /\ reqs[r].waitTo - reqs[r].start >= 1
        /\ reqs[r].obs.n = 1
        /\ reqs[r].obs.duration >= 1
        /\ reqs[r].obs.status = 200

(***************************************************************************)
(* C11: every request that entered the send route finishes; a request      *)
(* whose context is cancelled while limiter.Wait is pending leaves the     *)
(* wait, and one whose context is cancelled with the backend call in       *)
(* flight sees the call end, by the client's timeout if by nothing else.   *)
(***************************************************************************)
\* the request is suspended in limiter.Wait or in u.client.Do
Suspended(r) == reqs[r].pc \in {"wait", "do"}

C11_AbandonedRequestEnds ==
    \A r \in Reqs :
        /\ (reqs[r].pc # "new") ~> (reqs[r].pc = "done")
        /\ (reqs[r].ctxDone /\ Suspended(r)) ~> ~Suspended(r)

\* a request abandoned with its backend call in flight was ended by the
\* client's timeout and is through the middleware chain
C11_Witness ==
    \E r \in Reqs :
        /\ reqs[r].ctxDone
        /\ reqs[r].waitErr = "nil"
        /\ reqs[r].doErr = "timeout"
        /\ reqs[r].pc = "done"

====
